---- MODULE Spec2Model ----
(***************************************************************************)
(* Model of the Grohe Smarthome coordinators                               *)
(* (custom_components/grohe_smarthome/entities/coordinator).               *)
(*                                                                         *)
(* Part 1: BlueHomeCoordinator (blue_home_coordinator.py): the scheduled   *)
(* tick (_async_update_data) and the background Refresh-and-Verify cycle   *)
(* (_async_refresh_and_verify, _send_refresh_command), interleaved at the  *)
(* suspension points of the code (the awaited remote calls and the         *)
(* asyncio.sleep of the polling loop).  The code between two suspension    *)
(* points runs without interruption (one event loop), so it is one action. *)
(* Not modelled: _last_update (a wall-clock stamp no decision reads), the  *)
(* log texts and the listener notification of async_set_updated_data.      *)
(***************************************************************************)
EXTENDS Integers, Sequences, FiniteSets, TLC

(***************************************************************************)
(* Bounds of the model                                                     *)
(***************************************************************************)
\* measurement instants are 1..MaxTs
MaxTs == 2
\* number of task objects of _async_refresh_and_verify that may exist at once
MaxCycles == 2

(***************************************************************************)
(* Program constants                                                       *)
(***************************************************************************)
\* self._update_timeout = 30
UpdateTimeout == 30
\* self._poll_interval = 10
PollInterval == 10
\* max_attempts = 3 in _send_refresh_command
SendMaxAttempts == 3

\* None as a status mapping or a failure; as an instant None is NoneTs, and
\* as a Snapshot it is NoneData (TLC compares values of one shape only)
None == "None"
NoneTs == 0
NoneData ==
    [details |-> [timestamp |-> [kind |-> "None", val |-> 0], status |-> None],
     status |-> None]

Instants == 1..MaxTs
Cycles == 1..MaxCycles

(***************************************************************************)
(* Remote responses.  The details response carries, at                     *)
(* data_latest.measurement.timestamp, nothing ("missing"), a value that is *)
(* not a string ("nonstr"), a string that is no timestamp ("badstr") or a  *)
(* timestamp string ("str") of instant val; and a status entry that is     *)
(* absent, a well-formed list of {type, value} entries, or malformed.      *)
(***************************************************************************)
RawTimestamps ==
    { [kind |-> k, val |-> 0] : k \in {"missing", "nonstr", "badstr"} }
        \cup { [kind |-> "str", val |-> n] : n \in Instants }

\* the responses the remote client returns in this model
ApiResponses ==
    { [timestamp |-> t, status |-> "wellformed"] :
        t \in { r \in RawTimestamps :
                    r.kind \in {"missing", "badstr", "str"} } }

\* the failure kinds of a remote call: httpx.ReadTimeout, any other Exception
Failures == {"timeout", "error"}

\* dt_util.parse_datetime: the instant of a timestamp string, None otherwise
ParseDatetime(raw) == IF raw.kind = "str" THEN raw.val ELSE NoneTs

\* the status comprehension of _fetch_device_data (lines 102-106)
StatusMapping(api_data) ==
    CASE api_data.status = "absent"     -> "empty"
      [] api_data.status = "wellformed" -> "mapping"
      [] OTHER                          -> None

\* _fetch_device_data applied to a response of get_appliance_details
FetchDeviceData(api_data) ==
    [details |-> api_data, status |-> StatusMapping(api_data)]

\* _extract_timestamp
ExtractTimestamp(d) ==
    IF d = NoneData THEN NoneTs
    ELSE IF d.details.timestamp.kind \notin {"str", "badstr"} THEN NoneTs
    ELSE ParseDatetime(d.details.timestamp)

\* line 133 written with >= for > (an equal instant accepted as fresh)
IsNewerOrEqual(ts, old_ts) ==
    ts # NoneTs /\ (old_ts = NoneTs \/ ts >= old_ts)

\* line 133 written with < for > (the comparison reversed)
IsOlder(ts, old_ts) == ts # NoneTs /\ (old_ts = NoneTs \/ ts < old_ts)

\* the test of line 133: ts and (old_ts is None or ts > old_ts)
IsNewer(ts, old_ts) == ts # NoneTs /\ (old_ts = NoneTs \/ ts > old_ts)

\* max_attempts = self._update_timeout // self._poll_interval (line 124)
MaxAttempts == UpdateTimeout \div PollInterval

\* line 155 written as "except httpx.ReadTimeout"
ExceptReadTimeout(e) == e = "timeout"

\* "except Exception" of line 155: the failure kinds the cycle catches
ExceptException(e) == e \in Failures

\* "if attempt + 1 >= max_attempts" written with > for >=
SendGivesUpLate(n) == n > SendMaxAttempts

\* "while attempts < max_attempts" written with <= for <
LoopContinuesOnceMore(attempts) == attempts <= MaxAttempts


\* "if attempt + 1 >= max_attempts: raise" of line 189
SendGivesUp(n) == n >= SendMaxAttempts

\* "while attempts < max_attempts" of line 127
LoopContinues(attempts) == attempts < MaxAttempts

VARIABLES
    data,                  \* DataUpdateCoordinator.data, the cached Snapshot
    last_measurement_timestamp,   \* the Freshness Marker
    refresh_task_running,  \* the in-flight flag
    tick_pc,               \* the tick: "idle" or "fetch" (awaiting the fetch)
    cyc,                   \* the live tasks of _async_refresh_and_verify
    last_event             \* the remote call a task completed last

vars == <<data, last_measurement_timestamp, refresh_task_running, tick_pc,
          cyc, last_event>>

(***************************************************************************)
(* A task of _async_refresh_and_verify: its position pc, its locals old_ts *)
(* and attempts, and, while it is in _send_refresh_command, the number     *)
(* attempt + 1 of the command in flight (send_attempt).                    *)
(***************************************************************************)
NoCycle ==
    [pc |-> "idle", old_ts |-> NoneTs, send_attempt |-> 0, attempts |-> 0]

(***************************************************************************)
(* What the tasks log: the remote call completed last inside a task        *)
(* (call: "command" or "details"; n: its number, attempt + 1 or attempts;  *)
(* result: "ok" or the failure raised; data: new_data of a poll; old_ts:   *)
(* the marker the poll was compared with) and how the task went on (exit:  *)
(* "none" while it continues, else how it ended).                          *)
(***************************************************************************)
Event(call, n, result, d, old_ts, exit) ==
    [call |-> call, n |-> n, result |-> result, data |-> d,
     old_ts |-> old_ts, exit |-> exit]

NoEvent == Event("none", 0, "ok", NoneData, NoneTs, "none")

Running == {"send", "sleep", "fetch"}
Polling == {"sleep", "fetch"}

(***************************************************************************)
(* Part 2: GuardCoordinator (guard_coordinator.py): its fetch _get_data,   *)
(* run by the scheduled tick (_async_update_data) and by get_initial_value,*)
(* and the Consumption Baseline it keeps.  Its state stands still in the   *)
(* behaviours of Part 1, and the state of Part 1 in those of Part 2.       *)
(* Volumes are whole multiples of 0.01 l; days are counted from the day    *)
(* the coordinator is constructed (day 0).                                 *)
(***************************************************************************)
\* days are 0..MaxDay
MaxDay == 2
\* a month has DaysPerMonth days: day d is day (d % DaysPerMonth) + 1 of its
\* month
DaysPerMonth == 2
\* today's true consumption and the history total are 0..MaxVol
MaxVol == 1

\* the two callers of _get_data
Fetchers == {"tick", "initial"}

\* _total_value_update_day = None
NoDay == -1

\* the data of a coordinator that holds no Snapshot (data is None)
GuardNone ==
    [details |-> [status |-> None, install |-> None], status |-> None,
     pressure |-> None, total |-> 0]

\* a caller that is not in _get_data
NoFetch ==
    [pc |-> "idle", api |-> [status |-> None, install |-> None],
     pressure |-> None, today |-> 0]

(***************************************************************************)
(* What a fetch did last: the remote call it completed ("details",         *)
(* "pressure", "today", "total"), the result of that call ("ok", "nolist": *)
(* a response without a list of withdrawals, "raise") and the code at      *)
(* which the fetch raised ("none" when it went on or returned).            *)
(***************************************************************************)
GuardEvent(call, result, at) ==
    [call |-> call, result |-> result, at |-> at]

VARIABLES
    now,                     \* the calendar day of datetime.now()
    water_today,             \* the device's consumption of today so far
    has_pressure_measurement,   \* GuardCoordinator._has_pressure_measurement
    guard_data,              \* DataUpdateCoordinator.data of the coordinator
    total_value,             \* _total_value, the Consumption Baseline
    total_value_update_day,  \* _total_value_update_day, its day stamp
    last_update,             \* _last_update, the day of the last Snapshot
    get,                     \* the calls of _get_data in progress, by caller
    guard_event              \* what a fetch did last

guard_vars == <<now, water_today, has_pressure_measurement, guard_data,
                total_value, total_value_update_day, last_update, get,
                guard_event>>

\* GuardCoordinator.__init__ (lines 23-39), has_pressure_measurement being
\* its argument
GuardInit(has_pressure) ==
    /\ now = 0
    /\ water_today = 0
    /\ has_pressure_measurement = has_pressure
    /\ guard_data = GuardNone
    /\ total_value = 0
    /\ total_value_update_day = NoDay
    /\ get = [f \in Fetchers |-> NoFetch]
    /\ last_update = 0
    /\ guard_event = GuardEvent("none", "ok", "none")

(***************************************************************************)
(* Part 3: the calls get_initial_value and send_command made on a          *)
(* BlueHomeCoordinator from outside the scheduler (lines 229-250).  Each   *)
(* awaits one remote call and hands its result, or its exception, to the   *)
(* caller.                                                                 *)
(***************************************************************************)
Calls == {"get_initial_value", "send_command"}

VARIABLES
    call_pc                  \* the calls in progress: "idle" or "await"

call_vars == <<call_pc>>

\* no call is in progress
CallsInit == call_pc = [k \in Calls |-> "idle"]

(***************************************************************************)
(* Part 4: BlueProfCoordinator (blue_prof_coordinator.py) and              *)
(* SenseCoordinator (sense_coordinator.py): the fetch _get_data of each,   *)
(* run by its scheduled tick (_async_update_data) and by                   *)
(* get_initial_value.                                                      *)
(***************************************************************************)
\* the attributes BlueProfCoordinator.__init__ assigns (lines 23-35)
ProfAttributes ==
    {"_api", "_domain", "_device", "_timezone", "_last_update",
     "_notifications", "_log_response_data", "_key_path_for_timestamp",
     "_last_measurement_timestamp", "_last_measurement_updated",
     "_update_timeout", "_update_interval"}

\* the data of a coordinator that holds no Snapshot (data is None)
ProfNone == [details |-> None, status |-> None]

SenseNone == [details |-> [status |-> None, install |-> None]]

\* what a fetch of BlueProfCoordinator did last: its caller, the exception
\* that ended it ("none" when none did) and the level of the log entry
\* written for it
ProfEvent(f, exc, log) == [by |-> f, exc |-> exc, log |-> log]

VARIABLES
    prof_data,               \* DataUpdateCoordinator.data of BlueProf
    prof_last_measurement_timestamp,   \* its _last_measurement_timestamp
    prof_last_measurement_updated,     \* its _last_measurement_updated
    prof_get,                \* its calls of _get_data in progress, by caller
    prof_event,              \* what a fetch of it did last
    sense_data,              \* DataUpdateCoordinator.data of Sense
    sense_get                \* its calls of _get_data in progress, by caller

prof_vars == <<prof_data, prof_last_measurement_timestamp,
               prof_last_measurement_updated, prof_get, prof_event>>

sense_vars == <<sense_data, sense_get>>

\* BlueProfCoordinator.__init__ (lines 21-35)
ProfInit ==
    /\ prof_data = ProfNone
    /\ prof_last_measurement_timestamp = NoneTs
    /\ prof_last_measurement_updated = FALSE
    /\ prof_get = [f \in Fetchers |-> "idle"]
    /\ prof_event = ProfEvent("tick", "none", "none")

\* SenseCoordinator.__init__ (lines 18-26)
SenseInit ==
    /\ sense_data = SenseNone
    /\ sense_get = [f \in Fetchers |-> "idle"]

\* BlueHomeCoordinator.__init__
BlueHomeInit ==
    /\ data = NoneData
    /\ last_measurement_timestamp = NoneTs
    /\ refresh_task_running = FALSE
    /\ tick_pc = "idle"
    /\ cyc = [c \in Cycles |-> NoCycle]
    /\ last_event = NoEvent

\* Part 1: a Blue Home appliance; the Guard coordinator only stands by
Init ==
    /\ BlueHomeInit
    /\ GuardInit(FALSE)
    /\ CallsInit
    /\ ProfInit
    /\ SenseInit

\* Part 2: a Guard appliance, with or without pressure measurement
InitGuard ==
    /\ BlueHomeInit
    /\ \E has_pressure \in BOOLEAN : GuardInit(has_pressure)
    /\ CallsInit
    /\ ProfInit
    /\ SenseInit

(***************************************************************************)
(* The cycle, lines 117-122 up to the first suspension: the flag is set,   *)
(* the marker is read and the first refresh command is issued.             *)
(***************************************************************************)
Started ==
    [pc |-> "send", old_ts |-> last_measurement_timestamp, send_attempt |-> 1,
     attempts |-> 0]

\* the slot a new task takes: the first one that holds no task
FreeSlots == { c \in Cycles : cyc[c].pc = "idle" }
FirstFree == CHOOSE c \in FreeSlots : \A d \in FreeSlots : c <= d

(***************************************************************************)
(* Lines 89-90: if not self._refresh_task_running:                         *)
(*                  self.hass.async_create_task(...)                       *)
(* The task either runs to its first suspension inside the call (an eager  *)
(* task) or is only scheduled and takes its first step later.  No task is  *)
(* created beyond MaxCycles live ones (the bound of the model).            *)
(***************************************************************************)
LaunchIfIdle ==
    IF refresh_task_running \/ FreeSlots = {}
    THEN UNCHANGED <<refresh_task_running, cyc>>
    ELSE \E eager \in BOOLEAN :
            IF eager
            THEN /\ refresh_task_running' = TRUE
                 /\ cyc' = [cyc EXCEPT ![FirstFree] = Started]
            ELSE /\ UNCHANGED refresh_task_running
                 /\ cyc' = [cyc EXCEPT ![FirstFree] =
                                [NoCycle EXCEPT !.pc = "created"]]

\* _async_update_data with a cached Snapshot (lines 71-73, 87-92)
\* a tick that fetches although a Snapshot is cached
TickCachedRefetches ==
    /\ tick_pc = "idle"
    /\ data # NoneData
    /\ tick_pc' = "fetch"
    /\ UNCHANGED <<data, last_measurement_timestamp, refresh_task_running,
                   cyc, last_event>>

TickCached ==
    /\ tick_pc = "idle"
    /\ data # NoneData
    /\ LaunchIfIdle
    /\ data' = data
    /\ UNCHANGED <<last_measurement_timestamp, tick_pc, last_event>>

\* _async_update_data without a Snapshot: await _fetch_device_data (line 75)
TickFetch ==
    /\ tick_pc = "idle"
    /\ data = NoneData
    /\ tick_pc' = "fetch"
    /\ UNCHANGED <<data, last_measurement_timestamp, refresh_task_running,
                   cyc, last_event>>

\* a first fetch that records the instant of its Snapshot as the marker
TickFetchReturnSetsMarker ==
    /\ tick_pc = "fetch"
    /\ \E api_data \in ApiResponses :
          /\ LaunchIfIdle
          /\ data' = FetchDeviceData(api_data)
          /\ last_measurement_timestamp' =
                 ExtractTimestamp(FetchDeviceData(api_data))
    /\ tick_pc' = "idle"
    /\ UNCHANGED last_event

\* the fetch returns; lines 76-92, and the scheduler stores the result
TickFetchReturn ==
    /\ tick_pc = "fetch"
    /\ \E api_data \in ApiResponses :
          /\ LaunchIfIdle
          /\ data' = FetchDeviceData(api_data)
    /\ tick_pc' = "idle"
    /\ UNCHANGED <<last_measurement_timestamp, last_event>>

\* a failed first fetch that launches the task all the same
TickFetchFailLaunches ==
    /\ tick_pc = "fetch"
    /\ LaunchIfIdle
    /\ tick_pc' = "idle"
    /\ UNCHANGED <<data, last_measurement_timestamp, last_event>>

\* the fetch raises: the tick raises, no task is launched, data is kept
TickFetchFail ==
    /\ tick_pc = "fetch"
    /\ tick_pc' = "idle"
    /\ UNCHANGED <<data, last_measurement_timestamp, refresh_task_running,
                   cyc, last_event>>

\* a scheduled task takes its first step (lines 117-122)
CycleStart(c) ==
    /\ cyc[c].pc = "created"
    /\ refresh_task_running' = TRUE
    /\ cyc' = [cyc EXCEPT ![c] = Started]
    /\ UNCHANGED <<data, last_measurement_timestamp, tick_pc, last_event>>

\* the cycle without its finally block: the flag is left as it is
FinallyMissing == refresh_task_running

\* the value the finally block of line 164 leaves in _refresh_task_running
FinallyFlag == FALSE

\* the end of task c: the finally block of lines 163-164 runs
Exit(c) ==
    /\ cyc' = [cyc EXCEPT ![c] = NoCycle]
    /\ refresh_task_running' = FinallyFlag

\* the exit of the cycle on a failure e raised by remote call number n
\* (lines 155-164)
Raised(c, call, n, e) ==
    /\ Exit(c)
    /\ last_event' = Event(call, n, e, NoneData, NoneTs,
                           IF ExceptException(e) THEN "failed" ELSE "escaped")
    /\ UNCHANGED <<data, last_measurement_timestamp, tick_pc>>

\* set_appliance_command returns: _send_refresh_command returns (line 214),
\* the polling loop is entered (lines 124-128)
SendReturn(c) ==
    /\ cyc[c].pc = "send"
    /\ IF LoopContinues(0)
       THEN /\ cyc' = [cyc EXCEPT ![c].pc = "sleep", ![c].send_attempt = 0]
            /\ last_event' = Event("command", cyc[c].send_attempt, "ok",
                                   NoneData, NoneTs, "none")
            /\ UNCHANGED refresh_task_running
       ELSE /\ Exit(c)
            /\ last_event' = Event("command", cyc[c].send_attempt, "ok",
                                   NoneData, NoneTs, "timedout")
    /\ UNCHANGED <<data, last_measurement_timestamp, tick_pc>>

\* lines 188-206 without the "raise" of line 197: the last timeout is
\* swallowed, _send_refresh_command returns and the polling loop is entered
SendTimeoutSwallowed(c) ==
    /\ cyc[c].pc = "send"
    /\ last_event' = Event("command", cyc[c].send_attempt, "timeout",
                           NoneData, NoneTs, "none")
    /\ IF SendGivesUp(cyc[c].send_attempt)
       THEN cyc' = [cyc EXCEPT ![c].pc = "sleep", ![c].send_attempt = 0]
       ELSE cyc' = [cyc EXCEPT ![c].send_attempt = @ + 1]
    /\ UNCHANGED <<data, last_measurement_timestamp, refresh_task_running,
                   tick_pc>>

\* set_appliance_command raises httpx.ReadTimeout (lines 188-206)
SendTimeout(c) ==
    /\ cyc[c].pc = "send"
    /\ IF SendGivesUp(cyc[c].send_attempt)
       THEN Raised(c, "command", cyc[c].send_attempt, "timeout")
       ELSE /\ cyc' = [cyc EXCEPT ![c].send_attempt = @ + 1]
            /\ last_event' = Event("command", cyc[c].send_attempt, "timeout",
                                   NoneData, NoneTs, "none")
            /\ UNCHANGED <<data, last_measurement_timestamp,
                           refresh_task_running, tick_pc>>

\* set_appliance_command raises anything else: not caught by line 188
SendError(c) ==
    /\ cyc[c].pc = "send"
    /\ Raised(c, "command", cyc[c].send_attempt, "error")

\* asyncio.sleep returns; attempts += 1; the fetch is issued (lines 128-130)
SleepElapse(c) ==
    /\ cyc[c].pc = "sleep"
    /\ cyc' = [cyc EXCEPT ![c].pc = "fetch", ![c].attempts = @ + 1]
    /\ UNCHANGED <<data, last_measurement_timestamp, refresh_task_running,
                   tick_pc, last_event>>

\* the fetch of the polling loop returns (lines 130-153, 163-164)
\* a poll that records the fresh instant without storing its Snapshot
FetchReturnKeepsData(c) ==
    /\ cyc[c].pc = "fetch"
    /\ \E api_data \in ApiResponses :
         LET new_data == FetchDeviceData(api_data)
         IN  /\ IsNewer(ExtractTimestamp(new_data), cyc[c].old_ts)
             /\ last_measurement_timestamp' = ExtractTimestamp(new_data)
             /\ Exit(c)
             /\ last_event' = Event("details", cyc[c].attempts, "ok",
                                    new_data, cyc[c].old_ts, "success")
    /\ UNCHANGED <<data, tick_pc>>

FetchReturn(c) ==
    /\ cyc[c].pc = "fetch"
    /\ \E api_data \in ApiResponses :
         LET new_data == FetchDeviceData(api_data)
             ts == ExtractTimestamp(new_data)
             n  == cyc[c].attempts
         IN  IF IsNewer(ts, cyc[c].old_ts)
             THEN /\ last_measurement_timestamp' = ts
                  /\ data' = new_data
                  /\ Exit(c)
                  /\ last_event' = Event("details", n, "ok", new_data,
                                         cyc[c].old_ts, "success")
             ELSE IF LoopContinues(n)
             THEN /\ cyc' = [cyc EXCEPT ![c].pc = "sleep"]
                  /\ last_event' = Event("details", n, "ok", new_data,
                                         cyc[c].old_ts, "none")
                  /\ UNCHANGED <<data, last_measurement_timestamp,
                                 refresh_task_running>>
             ELSE /\ Exit(c)
                  /\ last_event' = Event("details", n, "ok", new_data,
                                         cyc[c].old_ts, "timedout")
                  /\ UNCHANGED <<data, last_measurement_timestamp>>
    /\ UNCHANGED tick_pc

\* the fetch of the polling loop raises (line 130, caught at line 155)
FetchFail(c) ==
    /\ cyc[c].pc = "fetch"
    /\ \E e \in Failures : Raised(c, "details", cyc[c].attempts, e)

\* what stands still while the BlueHomeCoordinator of Part 1 runs
beside_vars == <<guard_vars, call_vars, prof_vars, sense_vars>>

Next ==
    \/ TickCached /\ UNCHANGED beside_vars
    \/ TickFetch /\ UNCHANGED beside_vars
    \/ TickFetchReturn /\ UNCHANGED beside_vars
    \/ TickFetchFail /\ UNCHANGED beside_vars
    \/ \E c \in Cycles : CycleStart(c) /\ UNCHANGED beside_vars
    \/ \E c \in Cycles : SendReturn(c) /\ UNCHANGED beside_vars
    \/ \E c \in Cycles : SendTimeout(c) /\ UNCHANGED beside_vars
    \/ \E c \in Cycles : SendError(c) /\ UNCHANGED beside_vars
    \/ \E c \in Cycles : SleepElapse(c) /\ UNCHANGED beside_vars
    \/ \E c \in Cycles : FetchReturn(c) /\ UNCHANGED beside_vars
    \/ \E c \in Cycles : FetchFail(c) /\ UNCHANGED beside_vars

Spec == Init /\ [][Next]_vars

(***************************************************************************)
(* Fairness: every awaited remote call returns or fails and every sleep    *)
(* elapses, so a live task always takes its next step.                     *)
(***************************************************************************)
CycleStep(c) ==
    \/ CycleStart(c)
    \/ SendReturn(c)
    \/ SendTimeout(c)
    \/ SendError(c)
    \/ SleepElapse(c)
    \/ FetchReturn(c)
    \/ FetchFail(c)

FairSpec == Spec /\ \A c \in Cycles : WF_vars(CycleStep(c))

(***************************************************************************)
(* Part 3: get_initial_value and send_command of BlueHomeCoordinator       *)
(***************************************************************************)
\* get_initial_value (line 231) awaits _fetch_device_data, whatever is
\* cached; send_command (lines 244-250) awaits set_appliance_command
CallStart(k) ==
    /\ call_pc[k] = "idle"
    /\ call_pc' = [call_pc EXCEPT ![k] = "await"]
    /\ UNCHANGED vars

\* a call that caches what a details fetch returned
CallReturnCaches(k) ==
    /\ call_pc[k] = "await"
    /\ call_pc' = [call_pc EXCEPT ![k] = "idle"]
    /\ \E api_data \in ApiResponses : data' = FetchDeviceData(api_data)
    /\ UNCHANGED <<last_measurement_timestamp, refresh_task_running,
                   tick_pc, cyc, last_event>>

\* the remote call returns: get_initial_value hands the fetched Snapshot,
\* send_command the raw response, to the caller
CallReturn(k) ==
    /\ call_pc[k] = "await"
    /\ call_pc' = [call_pc EXCEPT ![k] = "idle"]
    /\ UNCHANGED vars

\* the remote call raises: the exception goes to the caller
CallFail(k) ==
    /\ call_pc[k] = "await"
    /\ call_pc' = [call_pc EXCEPT ![k] = "idle"]
    /\ UNCHANGED vars

\* what stands still, besides the coordinator, while a call runs
beside_call_vars == <<guard_vars, prof_vars, sense_vars>>

CallsNext ==
    \/ Next
    \/ \E k \in Calls : CallStart(k) /\ UNCHANGED beside_call_vars
    \/ \E k \in Calls : CallReturn(k) /\ UNCHANGED beside_call_vars
    \/ \E k \in Calls : CallFail(k) /\ UNCHANGED beside_call_vars

SpecCalls == Init /\ [][CallsNext]_<<vars, call_vars>>

(***************************************************************************)
(* Part 2: the fetch of GuardCoordinator                                   *)
(***************************************************************************)
Days == 0..MaxDay

\* datetime.day: the day of the month of day d
DayOfMonth(d) == (d % DaysPerMonth) + 1

\* the shapes of the appliance details get_appliance_details returns: the
\* 'status' entry a list of {type, value} entries ("wellformed"), missing
\* ("absent"), not a list ("nonlist") or a list of entries without 'type'
\* or 'value' ("badentries"); 'installation_date' an ISO date ("valid") or
\* missing ("absent")
GuardStatusShapes == {"wellformed", "absent", "nonlist", "badentries"}

GuardDetails ==
    { [status |-> "wellformed", install |-> "valid"],
      [status |-> "absent", install |-> "valid"],
      [status |-> "wellformed", install |-> "absent"] }

\* the responses of get_appliance_data to a withdrawals query: a list of
\* withdrawals whose amounts sum to sum, no list, or a failure.  The sums
\* come from the set sums.
Withdrawals(sums) ==
    { [kind |-> "ok", sum |-> v] : v \in sums }
        \cup { [kind |-> "nolist", sum |-> 0], [kind |-> "raise", sum |-> 0] }

\* a noisy response to today's query: amounts that sum below zero
NoisySum == -1

\* max(a, b)
Max(a, b) == IF a >= b THEN a ELSE b

\* round(x, 2), volumes being whole multiples of 0.01
Round2(x) == x

\* a _get_total_value that answers a failure with a sentinel
GetTotalValueSentinel(resp) ==
    CASE resp.kind = "ok" -> resp.sum
      [] resp.kind = "nolist" -> 0
      [] OTHER -> -1

\* _get_total_value (lines 41-66): the sum of the withdrawals, 0.0 when the
\* response holds no list and 0.0 when anything raises
GetTotalValue(resp) ==
    CASE resp.kind = "ok" -> resp.sum
      [] resp.kind = "nolist" -> 0
      [] OTHER -> 0

\* line 85: the baseline is recomputed when it was never computed or the
\* day of the month is at least one more than that of the stamp
NeedsRecompute(update_day, today) ==
    \/ /\ update_day # NoDay
       /\ DayOfMonth(today) - DayOfMonth(update_day) >= 1
    \/ update_day = NoDay

\* lines 100-104: what building the status mapping raises
StatusRaises(api_data) ==
    CASE api_data.status = "wellformed" -> "none"
      [] api_data.status = "absent" -> "KeyError"
      [] api_data.status = "nonlist" -> "TypeError"
      [] OTHER -> "KeyError"

\* line 103: except AttributeError
StatusExcept(exc) == exc = "AttributeError"

\* lines 100-107: the Snapshot _get_data returns
GuardSnapshot(api_data, pressure, tv, today) ==
    [details |-> api_data,
     status |-> IF StatusRaises(api_data) = "none" THEN "mapping" ELSE None,
     pressure |-> pressure,
     total |-> tv + today]

(***************************************************************************)
(* The end of _get_data for caller f.  A Snapshot returned to the tick     *)
(* becomes the coordinator's data; when _get_data raises to the tick,      *)
(* _async_update_data (lines 137-149) logs the error and falls off its     *)
(* end, so the scheduler stores None.  get_initial_value (lines 151-152)   *)
(* hands the Snapshot, or the exception, to its caller.                    *)
(***************************************************************************)
GuardReturn(f, snapshot, result) ==
    /\ guard_data' = IF f = "tick" THEN snapshot ELSE guard_data
    /\ last_update' = IF f = "tick" THEN now ELSE last_update
    /\ get' = [get EXCEPT ![f] = NoFetch]
    /\ guard_event' = GuardEvent(get[f].pc, result, "none")

GuardRaise(f, result, at) ==
    /\ guard_data' = IF f = "tick" THEN GuardNone ELSE guard_data
    /\ last_update' = last_update
    /\ get' = [get EXCEPT ![f] = NoFetch]
    /\ guard_event' = GuardEvent(get[f].pc, result, at)

\* lines 96-109: after the baseline, with the baseline tv
GuardFinish(f, tv, today, result) ==
    LET api_data == get[f].api
        exc == StatusRaises(api_data)
    IN  IF exc # "none" /\ ~StatusExcept(exc)
            THEN GuardRaise(f, result, "status")
            ELSE GuardReturn(f,
                     GuardSnapshot(api_data, get[f].pressure, tv, today),
                     result)

\* the tick fires, or get_initial_value is called: _get_data awaits the
\* appliance details (line 69)
GuardStart(f) ==
    /\ get[f].pc = "idle"
    /\ get' = [get EXCEPT ![f].pc = "details"]
    /\ UNCHANGED <<now, water_today, has_pressure_measurement, guard_data,
                   total_value, total_value_update_day, last_update,
                   guard_event>>

\* lines 69-84: the details arrive; the pressure measurement or today's
\* withdrawals are awaited next
DetailsReturn(f) ==
    /\ get[f].pc = "details"
    /\ \E api_data \in GuardDetails :
          get' = [get EXCEPT ![f].api = api_data,
                             ![f].pc = IF has_pressure_measurement
                                          THEN "pressure" ELSE "today"]
    /\ guard_event' = GuardEvent(get[f].pc, "ok", "none")
    /\ UNCHANGED <<now, water_today, has_pressure_measurement, guard_data,
                   total_value, total_value_update_day, last_update>>

\* line 69 raises
DetailsFail(f) ==
    /\ get[f].pc = "details"
    /\ GuardRaise(f, "raise", "details")
    /\ UNCHANGED <<now, water_today, has_pressure_measurement, total_value,
                   total_value_update_day>>

\* lines 76-81: the pressure measurement arrives
PressureReturn(f) ==
    /\ get[f].pc = "pressure"
    /\ get' = [get EXCEPT ![f].pressure = "measurement", ![f].pc = "today"]
    /\ guard_event' = GuardEvent(get[f].pc, "ok", "none")
    /\ UNCHANGED <<now, water_today, has_pressure_measurement, guard_data,
                   total_value, total_value_update_day, last_update>>

\* line 76 raises
PressureFail(f) ==
    /\ get[f].pc = "pressure"
    /\ GuardRaise(f, "raise", "pressure")
    /\ UNCHANGED <<now, water_today, has_pressure_measurement, total_value,
                   total_value_update_day>>

(***************************************************************************)
(* Lines 83-92: the query of today's withdrawals ends (the remote answers  *)
(* with the consumption of today, with noise, with no list, or fails).     *)
(* When the baseline needs no recomputation the fetch finishes; otherwise  *)
(* the installation date is parsed and the query since installation is     *)
(* awaited.                                                                *)
(***************************************************************************)
TodayDone(f) ==
    /\ get[f].pc = "today"
    /\ \E resp \in Withdrawals({water_today, NoisySum}) :
          LET today_water_consumption == GetTotalValue(resp)
          IN  IF ~NeedsRecompute(total_value_update_day, now)
                  THEN GuardFinish(f, total_value, today_water_consumption,
                                   resp.kind)
              ELSE IF get[f].api.install # "valid"
                  THEN GuardRaise(f, resp.kind, "install")
              ELSE /\ get' = [get EXCEPT
                                 ![f].today = today_water_consumption,
                                 ![f].pc = "total"]
                   /\ guard_event' = GuardEvent("today", resp.kind, "none")
                   /\ UNCHANGED <<guard_data, last_update>>
    /\ UNCHANGED <<now, water_today, has_pressure_measurement, total_value,
                   total_value_update_day>>

\* a recomputation that stamps the baseline only when its query succeeded
TotalDoneStampsOnSuccess(f) ==
    /\ get[f].pc = "total"
    /\ \E resp \in Withdrawals(0..MaxVol) :
          LET tv == Max(Round2(GetTotalValue(resp)) - get[f].today, 0)
          IN  /\ total_value' = tv
              /\ total_value_update_day' =
                     IF resp.kind = "ok" THEN now ELSE total_value_update_day
              /\ GuardFinish(f, tv, get[f].today, resp.kind)
    /\ UNCHANGED <<now, water_today, has_pressure_measurement>>

\* lines 92-109: the query since installation ends; the baseline is set and
\* stamped and the fetch finishes
TotalDone(f) ==
    /\ get[f].pc = "total"
    /\ \E resp \in Withdrawals(0..MaxVol) :
          LET tv == Max(Round2(GetTotalValue(resp)) - get[f].today, 0)
          IN  /\ total_value' = tv
              /\ total_value_update_day' = now
              /\ GuardFinish(f, tv, get[f].today, resp.kind)
    /\ UNCHANGED <<now, water_today, has_pressure_measurement>>

\* the appliance draws water
Withdraw ==
    /\ water_today < MaxVol
    /\ water_today' = water_today + 1
    /\ UNCHANGED <<now, has_pressure_measurement, guard_data, total_value,
                   total_value_update_day, last_update, get, guard_event>>

\* midnight
NextDay ==
    /\ now < MaxDay
    /\ now' = now + 1
    /\ water_today' = 0
    /\ UNCHANGED <<has_pressure_measurement, guard_data, total_value,
                   total_value_update_day, last_update, get, guard_event>>

\* what stands still while the GuardCoordinator runs
beside_guard_vars == <<vars, call_vars, prof_vars, sense_vars>>

GuardNext ==
    \/ \E f \in Fetchers : GuardStart(f) /\ UNCHANGED beside_guard_vars
    \/ \E f \in Fetchers : DetailsReturn(f) /\ UNCHANGED beside_guard_vars
    \/ \E f \in Fetchers : DetailsFail(f) /\ UNCHANGED beside_guard_vars
    \/ \E f \in Fetchers : PressureReturn(f) /\ UNCHANGED beside_guard_vars
    \/ \E f \in Fetchers : PressureFail(f) /\ UNCHANGED beside_guard_vars
    \/ \E f \in Fetchers : TodayDone(f) /\ UNCHANGED beside_guard_vars
    \/ \E f \in Fetchers : TotalDone(f) /\ UNCHANGED beside_guard_vars
    \/ Withdraw /\ UNCHANGED beside_guard_vars
    \/ NextDay /\ UNCHANGED beside_guard_vars

SpecGuard == InitGuard /\ [][GuardNext]_guard_vars

(***************************************************************************)
(* Part 4: the fetches of BlueProfCoordinator and SenseCoordinator         *)
(***************************************************************************)
\* the attribute that the loop condition of line 51 reads
LoopBudgetAttribute == "_timeout"

\* reading self.<name>: an attribute never assigned raises AttributeError
ReadAttribute(name) ==
    IF name \in ProfAttributes THEN "none" ELSE "AttributeError"

(***************************************************************************)
(* The end of _get_data of BlueProfCoordinator for caller f by an          *)
(* exception: _async_update_data (lines 81-93) logs it as an error and     *)
(* falls off its end, so the scheduler stores None; get_initial_value      *)
(* (lines 95-96) hands the exception to its caller.                        *)
(***************************************************************************)
ProfRaise(f, exc) ==
    /\ prof_data' = IF f = "tick" THEN ProfNone ELSE prof_data
    /\ prof_get' = [prof_get EXCEPT ![f] = "idle"]
    /\ prof_event' = ProfEvent(f, exc, IF f = "tick" THEN "error" ELSE "none")

\* lines 39-47: the flag is cleared and the measurement command is awaited
ProfStart(f) ==
    /\ prof_get[f] = "idle"
    /\ prof_last_measurement_updated' = FALSE
    /\ prof_get' = [prof_get EXCEPT ![f] = "command"]
    /\ UNCHANGED <<prof_data, prof_last_measurement_timestamp, prof_event>>

\* lines 49-52: the command returns and the condition of the polling loop
\* is evaluated for the first time; reading the budget raises, or the first
\* poll is awaited
ProfCommandReturn(f) ==
    /\ prof_get[f] = "command"
    /\ IF ReadAttribute(LoopBudgetAttribute) # "none"
           THEN ProfRaise(f, ReadAttribute(LoopBudgetAttribute))
           ELSE /\ prof_get' = [prof_get EXCEPT ![f] = "details"]
                /\ UNCHANGED <<prof_data, prof_event>>
    /\ UNCHANGED <<prof_last_measurement_timestamp,
                   prof_last_measurement_updated>>

\* line 42 raises
ProfCommandFail(f) ==
    /\ prof_get[f] = "command"
    /\ ProfRaise(f, "RequestError")
    /\ UNCHANGED <<prof_last_measurement_timestamp,
                   prof_last_measurement_updated>>

\* SenseCoordinator._get_data awaits the appliance details (line 29)
SenseStart(f) ==
    /\ sense_get[f] = "idle"
    /\ sense_get' = [sense_get EXCEPT ![f] = "details"]
    /\ UNCHANGED sense_data

\* lines 34-35 and 40-46: the details arrive; the Snapshot returned to the
\* tick becomes the coordinator's data
SenseReturn(f) ==
    /\ sense_get[f] = "details"
    /\ sense_get' = [sense_get EXCEPT ![f] = "idle"]
    /\ \E api_data \in GuardDetails :
          sense_data' = IF f = "tick" THEN [details |-> api_data]
                                      ELSE sense_data

\* line 29 raises: the tick logs the error (lines 48-49) and falls off its
\* end, so the scheduler stores None; get_initial_value raises
SenseFail(f) ==
    /\ sense_get[f] = "details"
    /\ sense_get' = [sense_get EXCEPT ![f] = "idle"]
    /\ sense_data' = IF f = "tick" THEN SenseNone ELSE sense_data

\* what stands still while the fetches of Part 4 run
beside_prof_vars == <<vars, guard_vars, call_vars, sense_vars>>

beside_sense_vars == <<vars, guard_vars, call_vars, prof_vars>>

ProfSenseNext ==
    \/ \E f \in Fetchers : ProfStart(f) /\ UNCHANGED beside_prof_vars
    \/ \E f \in Fetchers : ProfCommandReturn(f) /\ UNCHANGED beside_prof_vars
    \/ \E f \in Fetchers : ProfCommandFail(f) /\ UNCHANGED beside_prof_vars
    \/ \E f \in Fetchers : SenseStart(f) /\ UNCHANGED beside_sense_vars
    \/ \E f \in Fetchers : SenseReturn(f) /\ UNCHANGED beside_sense_vars
    \/ \E f \in Fetchers : SenseFail(f) /\ UNCHANGED beside_sense_vars

SpecProfSense == Init /\ [][ProfSenseNext]_<<prof_vars, sense_vars>>

(***************************************************************************)
(* Properties of BlueHomeCoordinator                                       *)
(***************************************************************************)
\* task c takes a step in this transition
Stepped(c) == cyc[c].pc \in Running /\ cyc'[c] # cyc[c]

\* task c ends in this transition
Exited(c) == cyc[c].pc \in Running /\ cyc'[c].pc = "idle"

\* C1: single-flight: at most one Refresh-and-Verify cycle is in flight (has
\* started and not ended) at any time, whatever the interleaving of ticks
\* and cycle steps.
C1_SingleFlight ==
    Cardinality({ c \in Cycles : cyc[c].pc \in Running }) <= 1

\* C2: a poll whose response has no timestamp, or one not after the marker
\* recorded at cycle start, never makes the cycle report success, change the
\* marker or publish a snapshot.
C2_StaleNeverAccepted ==
    [][\A c \in Cycles :
        (Stepped(c) /\ cyc[c].pc = "fetch" /\ last_event'.result = "ok") =>
            LET ts  == ExtractTimestamp(last_event'.data)
                old == cyc[c].old_ts
            IN  (ts = NoneTs \/ (old # NoneTs /\ ts <= old)) =>
                    /\ last_event'.exit # "success"
                    /\ last_measurement_timestamp' = last_measurement_timestamp
                    /\ data' = data]_vars

\* a cycle has timed out on a response that carries the very instant of the
\* marker recorded at its start
C2_Witness ==
    /\ last_event.exit = "timedout"
    /\ last_event.old_ts # NoneTs
    /\ ExtractTimestamp(last_event.data) = last_event.old_ts

\* C3: a cycle performs at most floor(T/P) polling fetches (3 for T = 30,
\* P = 10), whatever the responses are.
C3_PollsBounded ==
    \A c \in Cycles : cyc[c].attempts <= UpdateTimeout \div PollInterval

\* a cycle is in its third polling fetch
C3_Witness ==
    \E c \in Cycles : cyc[c].pc = "fetch" /\ cyc[c].attempts = 3

\* C4: a cycle whose command was sent and that never sees a fresher instant
\* ends Timed-Out, without raising, after exactly floor(T/P) polls, and
\* leaves the Snapshot and the marker as they were.
C4_TimedOutAfterAllPolls ==
    [][\A c \in Cycles :
        (Exited(c) /\ cyc[c].pc = "fetch" /\ last_event'.exit # "success") =>
            /\ last_event'.exit = "timedout"
            /\ cyc[c].attempts = UpdateTimeout \div PollInterval
            /\ data' = data
            /\ last_measurement_timestamp' = last_measurement_timestamp]_vars

\* C5: the poll (the k-th, 1 <= k <= floor(T/P)) whose response carries an
\* instant strictly after the marker recorded at cycle start ends the cycle
\* in success on that poll: the marker becomes that instant, that poll's data
\* is the new Snapshot, and the cycle polls no more.
C5_FreshPollSucceeds ==
    [][\A c \in Cycles :
        (Stepped(c) /\ cyc[c].pc = "fetch" /\ last_event'.result = "ok") =>
            LET ts  == ExtractTimestamp(last_event'.data)
                old == cyc[c].old_ts
            IN  (ts # NoneTs /\ old # NoneTs /\ ts > old) =>
                    /\ last_event'.exit = "success"
                    /\ last_event'.n = cyc[c].attempts
                    /\ cyc[c].attempts \in 1..(UpdateTimeout \div PollInterval)
                    /\ last_measurement_timestamp' = ts
                    /\ data' = last_event'.data
                    /\ cyc'[c].pc = "idle"]_vars

\* a cycle started with marker 1 has succeeded on its second poll
C5_Witness ==
    /\ last_event.exit = "success"
    /\ last_event.n = 2
    /\ last_event.old_ts = 1
    /\ ExtractTimestamp(last_event.data) > 1
    /\ last_measurement_timestamp = ExtractTimestamp(last_event.data)
    /\ data = last_event.data

\* C6: _send_refresh_command issues the command at most 3 times; it issues it
\* again only after a read timeout of an attempt before the third, returns on
\* the first success, raises the timeout of the third attempt, and raises any
\* other failure at once, without another attempt.
C6_SendRetries ==
    /\ [](\A c \in Cycles : cyc[c].send_attempt <= 3)
    /\ [][\A c \in Cycles :
            (Stepped(c) /\ cyc[c].pc = "send") =>
                LET n == cyc[c].send_attempt
                IN  /\ last_event'.call = "command"
                    /\ last_event'.n = n
                    /\ (cyc'[c].pc = "send") <=>
                           (last_event'.result = "timeout" /\ n < 3)
                    /\ (cyc'[c].pc = "send") => cyc'[c].send_attempt = n + 1
                    /\ (last_event'.result = "ok") =>
                           last_event'.exit \notin {"failed", "escaped"}
                    /\ (last_event'.result = "timeout" /\ n = 3) =>
                           last_event'.exit = "failed"
                    /\ (last_event'.result = "error") =>
                           last_event'.exit = "failed"]_vars

\* the third attempt has timed out and the timeout was raised
C6_Witness ==
    /\ last_event.call = "command"
    /\ last_event.n = 3
    /\ last_event.result = "timeout"
    /\ last_event.exit = "failed"

\* C7: polling starts only when a command attempt has succeeded (the third
\* included); a cycle whose command send aborts has polled zero times and
\* leaves the Snapshot and the marker unchanged.
C7_PollingOnlyAfterSend ==
    [][\A c \in Cycles :
        /\ (cyc'[c].pc \in Polling /\ cyc[c].pc \notin Polling) =>
               /\ cyc[c].pc = "send"
               /\ last_event'.call = "command"
               /\ last_event'.result = "ok"
               /\ cyc'[c].attempts = 0
        /\ (Exited(c) /\ cyc[c].pc = "send") =>
               /\ last_event'.call = "command"
               /\ last_event'.result \in Failures
               /\ last_event'.exit = "failed"
               /\ cyc[c].attempts = 0
               /\ data' = data
               /\ last_measurement_timestamp' = last_measurement_timestamp]_vars

\* the command succeeded on its third attempt and the cycle is in Polling
C7_Witness ==
    /\ last_event.call = "command"
    /\ last_event.n = 3
    /\ last_event.result = "ok"
    /\ \E c \in Cycles : cyc[c].pc = "sleep" /\ cyc[c].attempts = 0

\* C8: a read timeout of a polling fetch does not abort the cycle: it counts
\* as a poll without fresher data and the cycle goes on to its next poll.
C8_PollTimeoutContinues ==
    [][\A c \in Cycles :
        (Stepped(c) /\ cyc[c].pc = "fetch" /\ last_event'.result = "timeout")
            => /\ last_event'.exit \notin {"failed", "escaped"}
               /\ (cyc[c].attempts < UpdateTimeout \div PollInterval) =>
                      cyc'[c].pc = "sleep"]_vars

\* C9: no failure raised inside a cycle escapes it; when a cycle ends, on any
\* path, the in-flight flag is false; a cycle that ends on a failure leaves
\* the Snapshot unchanged.
C9_FailuresContained ==
    /\ [](last_event.exit # "escaped")
    /\ [][\A c \in Cycles :
            Exited(c) =>
                /\ refresh_task_running' = FALSE
                /\ last_event'.exit \in {"success", "timedout", "failed"}
                /\ (last_event'.exit = "failed") => data' = data]_vars

\* a polling fetch has failed with a failure other than a timeout, the cycle
\* has ended and the flag is clear
C9_Witness ==
    /\ last_event.call = "details"
    /\ last_event.result = "error"
    /\ last_event.exit = "failed"
    /\ refresh_task_running = FALSE

\* C10: under FairSpec every started cycle ends, and a set in-flight flag is
\* cleared again.
C10_FlagEventuallyCleared ==
    /\ refresh_task_running ~> (refresh_task_running = FALSE)
    /\ \A c \in Cycles : (cyc[c].pc \in Running) ~> (cyc[c].pc = "idle")

\* a cycle has ended and the flag is clear, with a Snapshot cached: the next
\* tick launches a new cycle
C10_Witness ==
    /\ last_event.exit \in {"success", "timedout", "failed"}
    /\ refresh_task_running = FALSE
    /\ data # NoneData
    /\ FreeSlots # {}

\* a tick launches a task in this transition
Launched ==
    \E c \in Cycles :
        cyc[c].pc = "idle" /\ cyc'[c].pc \in {"created", "send"}

\* C11: a tick with a cached Snapshot makes no remote call and hands back
\* exactly the cached Snapshot, also while a cycle is in flight; a tick
\* without a Snapshot makes one details fetch, inside the tick, and hands
\* back its result; no tick waits for a cycle.
C11_TickReturnsCache ==
    [][/\ (tick_pc = "idle" /\ data # NoneData) => tick_pc' = "idle"
       /\ (tick_pc = "idle" /\ Launched) => data' = data
       /\ (tick_pc = "idle" /\ tick_pc' = "fetch") =>
              data = NoneData /\ data' = data /\ cyc' = cyc
       /\ (tick_pc = "fetch" /\ tick_pc' = "idle") =>
              \/ data' \in { FetchDeviceData(a) : a \in ApiResponses }
              \/ data' = data /\ cyc' = cyc
       /\ (tick_pc = "fetch" /\ tick_pc' = "fetch") => ~Launched
      ]_vars

\* a Snapshot is cached and a tick has launched a second task while a cycle
\* is polling
C11_Witness ==
    /\ data # NoneData
    /\ tick_pc = "idle"
    /\ \E c \in Cycles : cyc[c].pc \in Polling
    /\ \E c \in Cycles : cyc[c].pc = "created"

\* C12 as stated: the first tick ever makes the baseline fetch inside the
\* tick and launches no background cycle.
C12_FirstTickLaunchesNothing ==
    [][(tick_pc = "fetch" /\ tick_pc' = "idle") => ~Launched]_vars

\* C12, amended: the first tick ever makes the baseline fetch inside the
\* tick, before any task exists; when the fetch returns the tick launches a
\* background cycle as every tick does (unless the flag is set or no task
\* can be created); when the fetch fails it launches none.
C12_FirstTickFetchesThenLaunches ==
    [][/\ (tick_pc = "idle" /\ tick_pc' = "fetch") =>
              data = NoneData /\ ~Launched
       /\ (tick_pc = "fetch" /\ tick_pc' = "idle" /\ data' # data) =>
              (Launched <=> (~refresh_task_running /\ FreeSlots # {}))
       /\ (tick_pc = "fetch" /\ tick_pc' = "idle" /\ data' = data) =>
              ~Launched
      ]_vars

\* the first fetch has returned and its tick has launched the first task
C12_Witness ==
    /\ data # NoneData
    /\ tick_pc = "idle"
    /\ last_event = NoEvent
    /\ last_measurement_timestamp = NoneTs
    /\ Cardinality({ c \in Cycles : cyc[c].pc # "idle" }) = 1

\* C13: the Freshness Marker never decreases and, once set, is never reset:
\* it is only ever replaced by a strictly greater instant.
C13_MarkerMonotone ==
    [][last_measurement_timestamp' >= last_measurement_timestamp]_vars

\* C23: whenever the Freshness Marker is set, the instant extracted from
\* the cached Snapshot is the marker.
C23_MarkerIsSnapshotInstant ==
    last_measurement_timestamp # NoneTs
        => ExtractTimestamp(data) = last_measurement_timestamp

\* a cycle has published a Snapshot with instant 1 and every cycle has
\* ended
C23_Witness ==
    /\ last_measurement_timestamp = 1
    /\ last_event.exit = "success"
    /\ last_event.old_ts = NoneTs
    /\ ExtractTimestamp(data) = 1
    /\ refresh_task_running = FALSE
    /\ \A c \in Cycles : cyc[c].pc = "idle"

\* C24: the first fetch of a tick caches its Snapshot without recording its
\* instant as the marker; while the marker is None a poll that returns a
\* response with an instant, whichever it is, is accepted and published.
C24_FirstPollAcceptedWithoutMarker ==
    [][/\ (tick_pc = "fetch" /\ tick_pc' = "idle") =>
              last_measurement_timestamp' = last_measurement_timestamp
       /\ \A c \in Cycles :
              (/\ Stepped(c)
               /\ cyc[c].pc = "fetch"
               /\ last_measurement_timestamp = NoneTs
               /\ last_event'.result = "ok"
               /\ ExtractTimestamp(last_event'.data) # NoneTs) =>
                  /\ cyc[c].old_ts = NoneTs
                  /\ last_event'.exit = "success"
                  /\ data' = last_event'.data
                  /\ last_measurement_timestamp' = ExtractTimestamp(data')
      ]_vars

\* a cycle that started without a marker has published a polled Snapshot
\* with the earliest instant there is, not after any instant the Snapshot
\* of the first fetch could bear
C24_Witness ==
    /\ last_event.exit = "success"
    /\ last_event.old_ts = NoneTs
    /\ last_event.n = 1
    /\ ExtractTimestamp(last_event.data) = 1
    /\ data = last_event.data
    /\ last_measurement_timestamp = 1

\* C22: get_initial_value always awaits a remote details fetch, whatever
\* is cached, and neither it nor send_command, returning or raising,
\* changes the cached Snapshot, the Freshness Marker or the flag, or
\* launches a cycle.
C22_CallsPreserveState ==
    [][\A k \in Calls :
          call_pc'[k] # call_pc[k] =>
              /\ call_pc[k] = "idle" => call_pc'[k] = "await"
              /\ data' = data
              /\ last_measurement_timestamp' = last_measurement_timestamp
              /\ refresh_task_running' = refresh_task_running
              /\ cyc' = cyc
      ]_<<vars, call_vars>>

\* both calls await their remote call while a Snapshot is cached, the
\* marker is set and a cycle is polling
C22_Witness ==
    /\ \A k \in Calls : call_pc[k] = "await"
    /\ data # NoneData
    /\ last_measurement_timestamp # NoneTs
    /\ refresh_task_running
    /\ \E c \in Cycles : cyc[c].pc \in Polling

(***************************************************************************)
(* Properties of GuardCoordinator                                          *)
(***************************************************************************)
\* the fetch of caller f ends in this transition
FetchEnds(f) == get[f].pc # "idle" /\ get'[f].pc = "idle"

\* C14: when the fetch of a scheduled tick fails, the Snapshot the
\* coordinator holds after the tick is the one it held before the tick.
C14_FailedTickKeepsSnapshot ==
    [][(FetchEnds("tick") /\ guard_event'.at # "none")
           => guard_data' = guard_data]_guard_vars

\* caller f gets the answer to today's query in this transition
TodayAnswered(f) == get[f].pc = "today" /\ get'[f] # get[f]

\* C15: once the baseline was computed on day D, a fetch on day D issues no
\* query since installation, and a fetch on the day after D issues it (the
\* installation date being readable), whichever days of the month the two
\* consecutive days are.
C15_RecomputedOncePerDay ==
    [][\A f \in Fetchers :
          (TodayAnswered(f) /\ total_value_update_day # NoDay) =>
              /\ now = total_value_update_day => get'[f].pc # "total"
              /\ (now = total_value_update_day + 1
                    /\ get[f].api.install = "valid") => get'[f].pc = "total"
      ]_guard_vars

\* C16: the total a fetch reports is never negative.
C16_TotalNeverNegative ==
    guard_data # GuardNone => guard_data.total >= 0

\* C17: within one day and with no recomputation by the reporting tick, a
\* tick never reports a total below the one the tick before it reported
\* that day, today's query answering with the consumption of the day (which
\* never decreases) or failing.
C17_TotalMonotoneWithinDay ==
    [][(/\ FetchEnds("tick")
        /\ get["tick"].pc = "today"
        /\ guard_event'.at = "none"
        /\ guard_data'.total >= total_value
        /\ guard_data # GuardNone
        /\ last_update = now)
           => guard_data'.total >= guard_data.total]_guard_vars

\* the details caller f works on are in shape
InShape(f) ==
    get[f].api.status = "wellformed" /\ get[f].api.install = "valid"

\* caller f gets the answer to the query since installation in this
\* transition
TotalAnswered(f) == get[f].pc = "total" /\ get'[f] # get[f]

\* C18: a failed query of today's or of all withdrawals counts as zero and
\* raises nothing: the fetch goes on, and with details in shape it returns
\* a Snapshot with the details, the status mapping and a total.
C18_QueryFailureYieldsZero ==
    [][\A f \in Fetchers :
          /\ (TodayAnswered(f) /\ guard_event'.result # "ok") =>
                /\ guard_event'.at \in {"none", "install", "status"}
                /\ InShape(f) => guard_event'.at = "none"
                /\ get'[f].pc = "total" => get'[f].today = 0
                /\ (InShape(f) /\ f = "tick" /\ get'[f].pc = "idle") =>
                       guard_data' = GuardSnapshot(get[f].api,
                                         get[f].pressure, total_value, 0)
          /\ (TotalAnswered(f) /\ guard_event'.result # "ok") =>
                /\ guard_event'.at \in {"none", "status"}
                /\ get'[f].pc = "idle"
                /\ total_value' = Max(0 - get[f].today, 0)
                /\ InShape(f) => guard_event'.at = "none"
                /\ (InShape(f) /\ f = "tick") =>
                       /\ guard_data'.details = get[f].api
                       /\ guard_data'.status = "mapping"
                       /\ guard_data'.total = total_value' + get[f].today
      ]_guard_vars

\* a fetch has just returned a Snapshot although today's query raised
C18_Witness ==
    /\ guard_event = GuardEvent("today", "raise", "none")
    /\ \A f \in Fetchers : get[f].pc = "idle"
    /\ guard_data # GuardNone
    /\ guard_data.status = "mapping"
    /\ last_update = now
    /\ total_value_update_day = now

\* C19: a fetch whose details lack a well-formed status list is not aborted
\* by that: it returns a Snapshot whose status mapping is None.
C19_StatusShapeAbsorbed ==
    [][\A f \in Fetchers :
          (/\ FetchEnds(f)
           /\ get[f].pc \in {"today", "total"}
           /\ get[f].api.status # "wellformed"
           /\ get[f].api.install = "valid") =>
              /\ guard_event'.at = "none"
              /\ f = "tick" =>
                    /\ guard_data'.details = get[f].api
                    /\ guard_data'.status = None
      ]_guard_vars

\* C20: the baseline is recomputed at most once for a calendar day, also
\* when two fetches overlap: no fetch recomputes a baseline that already
\* bears the stamp of the day.
C20_BaselineRecomputedOnce ==
    [][\A f \in Fetchers :
          (get[f].pc = "total" /\ get'[f].pc # "total")
              => total_value_update_day # now]_guard_vars

\* caller f finds at line 85 that the baseline is to be recomputed
EntersRecomputation(f) ==
    TodayAnswered(f) /\ NeedsRecompute(total_value_update_day, now)

C21_ProfLoopBoundedByBudget ==
    [][(prof_get["tick"] = "command" /\ prof_get'["tick"] = "idle"
           /\ prof_event'.exc # "RequestError") =>
              /\ prof_event'.log # "error"
              /\ prof_event'.exc = "none"
      ]_<<prof_vars, sense_vars>>

====
